---------------------------- MODULE Spec2Model ----------------------------
(***************************************************************************)
(* A model of the SGP-mode virtual CPU of SymbulationEmp:                  *)
(*   src/source/sgp_mode/CPU.h   class CPU (InitializeState, Reset,        *)
(*                               RunCPUStep, Mutate)                       *)
(*   src/unnamed/part_000        namespace inst (the instruction set) and  *)
(*                               reproduce_mutex                           *)
(*                                                                         *)
(* Every organism owns one CPU.  The state of a CPU is the CPUState object *)
(* (`state` in CPU.h) plus the core of the sgpl::Cpu (program counter and  *)
(* registers).  The world owns the reproduction queue `to_reproduce`, the  *)
(* monitoring data nodes and the configuration.                            *)
(*                                                                         *)
(* Points are doubles in the code.  They are modelled as integers counted  *)
(* in a fixed-point unit chosen so that every product with 0.20, 0.75 and  *)
(* (1 - penalty) that the modelled runs compute is exact (see PointUnit).  *)
(* Registers are 32-bit patterns read as uint32_t; a value v is the pair   *)
(* <<v \div 2^16, v % 2^16>> so that the full width is kept.               *)
(***************************************************************************)
EXTENDS Integers, Sequences, FiniteSets, TLC

(***************************************************************************)
(* Bounds of the model                                                     *)
(***************************************************************************)
\* the largest cycle budget `n_cycles` a RunCPUStep of Spec is called with
MaxCycles == 2
\* the largest number of Donate/Steal transfers a modelled run performs
MaxTransfers == 2
\* the largest program length InitBuild draws
MaxProgLen == 3

(***************************************************************************)
(* Organisms: a host and a symbiont                                        *)
(***************************************************************************)
Hosts == {1}
Symbionts == {2}
Orgs == Hosts \cup Symbionts
\* Organism::IsHost()
IsHost(o) == o \in Hosts
\* the null emp::Ptr<Organism>
NullOrg == 0

(***************************************************************************)
(* 32-bit register values                                                  *)
(***************************************************************************)
Half == 65536
U32(n) == <<n \div Half, n % Half>>
MaxU32 == <<Half - 1, Half - 1>>
\* *a == *b on uint32_t
U32Eq(x, y) == x = y
\* *a < *b on uint32_t
U32Less(x, y) == x[1] < y[1] \/ (x[1] = y[1] /\ x[2] < y[2])
\* ++*a on uint32_t (wraps)
U32Inc(x) ==
  IF x[2] < Half - 1 THEN <<x[1], x[2] + 1>>
  ELSE <<(x[1] + 1) % Half, 0>>

VARIABLES
  config,             \* SymConfigBase and the task set's size: a record
  host_of,            \* Organism::GetHost() of every organism (NullOrg: none)
  points,             \* Organism::GetPoints() of every organism
  program,            \* CPU::program of every organism
  pc,                 \* program counter of the organism's active core
  registers,          \* core.registers of the organism's active core
  jump_table,         \* CPUState::jump_table
  self_completed,     \* CPUState::self_completed
  shared_completed,   \* *CPUState::shared_completed
  stack,              \* CPUState::stack
  stack2,             \* CPUState::stack2
  input_buf,          \* CPUState::input_buf
  in_progress_repro,  \* CPUState::in_progress_repro
  location,           \* CPUState::location
  to_reproduce,       \* SGPWorld::to_reproduce
  reproduce_mutex,    \* inst::reproduce_mutex: its owner, or NullOrg
  data_nodes,         \* the world's SymEarned/SymDonated/SymStolen data nodes
  task_score,         \* what the task set's CheckTasks returns when next called
  at,                 \* where the organism's thread stands
  cycles,             \* cycles left of the organism's RunCPUStep
  internalEnvironment,         \* *CPUState::internalEnvironment
  internalEnvironmentPrivate,  \* *CPUState::internalEnvironmentPrivate
  to_transfer,        \* the local to_donate / to_steal of a Donate / Steal
  tick_start,         \* history: size of to_reproduce at the organism's last Reset
  repro_read,         \* history: balances line 83 has read since the last Reset
  sum_read            \* history: the sum of balances the last Donate / Steal read

coreVars == <<pc, registers>>
tableVars == <<jump_table, self_completed, shared_completed>>
stackVars == <<stack, stack2>>
reproVars == <<in_progress_repro, to_reproduce, reproduce_mutex>>
histVars == <<tick_start, repro_read, sum_read>>
envVars == <<internalEnvironment, internalEnvironmentPrivate>>
worldVars == <<data_nodes, task_score>>
vars == <<config, host_of, points, program, pc, registers, jump_table,
          self_completed, shared_completed, stack, stack2, input_buf,
          in_progress_repro, location, to_reproduce, reproduce_mutex,
          data_nodes, task_score, at, cycles, internalEnvironment,
          internalEnvironmentPrivate, to_transfer, tick_start, repro_read,
          sum_read>>


(***************************************************************************)
(* Programs                                                                *)
(*                                                                         *)
(* An instruction is an opcode, three register operands and a tag.  The    *)
(* opcodes are the names the instruction library gives them.               *)
(***************************************************************************)
Regs == {0, 1, 2}
Tags == {0, 1, 3}
Inst(op, a, b, c, tag) == [op |-> op, args |-> <<a, b, c>>, tag |-> tag]
\* an instruction that uses no tag and at most one operand
Op1(op, a) == Inst(op, a, 0, 0, 0)
Op0(op) == Inst(op, 0, 0, 0, 0)
Anchor(tag) == Inst("Global Anchor", 0, 0, 0, tag)
\* Library::GetOpCode("JumpIfNEq"), Library::GetOpCode("JumpIfLess")
JumpNeq == "JumpIfNEq"
JumpLess == "JumpIfLess"
IsJump(i) == i.op = JumpNeq \/ i.op = JumpLess

(***************************************************************************)
(* The global jump table of the active core (sgpl, outside src/):          *)
(* cpu.InitializeAnchors(program) registers every global anchor of the     *)
(* program, in program order, under its tag with its instruction index as  *)
(* value; MatchRegulated(tag) ranks the registered anchors that match the  *)
(* tag, best first.  Tags match when they differ in at most MatchThreshold *)
(* bits; closer tags rank first, and among equally close tags the anchor   *)
(* registered first.                                                       *)
(***************************************************************************)
MatchThreshold == 1
TagDistance(s, t) ==
  (IF s \div 2 = t \div 2 THEN 0 ELSE 1) + (IF s % 2 = t % 2 THEN 0 ELSE 1)
\* the indices 0 .. Len(prog) - 1 of the program, in program order
Indices(prog) == [k \in 1..Len(prog) |-> k - 1]
IsAnchorAt(prog, idx) == prog[idx + 1].op = "Global Anchor"
\* cpu.GetActiveCore().GetGlobalJumpTable() after cpu.InitializeAnchors(program)
GlobalJumpTable(prog) ==
  LET anchors == SelectSeq(Indices(prog), LAMBDA idx : IsAnchorAt(prog, idx))
  IN [uid \in 1..Len(anchors) |->
        [tag |-> prog[anchors[uid] + 1].tag, val |-> anchors[uid]]]
\* the uids of the anchors at distance d of the tag, in registration order
UidsAt(table, tag, d) ==
  SelectSeq([uid \in 1..Len(table) |-> uid],
            LAMBDA uid : TagDistance(table[uid].tag, tag) = d)
RECURSIVE RankedFrom(_, _, _)
RankedFrom(table, tag, d) ==
  IF d > MatchThreshold THEN <<>>
  ELSE UidsAt(table, tag, d) \o RankedFrom(table, tag, d + 1)
\* table.MatchRegulated(tag): the uids of the matching anchors, best first
MatchRegulated(table, tag) == RankedFrom(table, tag, 0)
\* table.GetVal(uid)
GetVal(table, uid) == table[uid].val

(***************************************************************************)
(* CPU::InitializeState                                                    *)
(***************************************************************************)
\* CPU.h:44, the argument of state.jump_table.resize
JumpTableSize == 100
\* std::vector::resize(n): keeps the first n elements, pads with zeros
Resize(vec, n) ==
  [k \in 1..n |-> IF k <= Len(vec) THEN vec[k] ELSE 0]
\* CPU.h:48-49, the value stored for the jump at index idx
JumpTargetNoFallback(table, tag, idx) ==
  LET entry == MatchRegulated(table, tag)
  IN IF Len(entry) > 0 THEN GetVal(table, Head(entry)) ELSE idx
JumpTarget(table, tag, idx) ==
  LET entry == MatchRegulated(table, tag)
  IN IF Len(entry) > 0 THEN GetVal(table, Head(entry)) ELSE idx + 1
\* CPU.h:45-52, the loop over the program: the entry at the index of every
\* jump is overwritten, every other entry is kept.  A write at an index past
\* the end of the vector is undefined behaviour; no program of the modelled
\* runs is longer than JumpTableSize, so it is never taken.
FillJumpTable(jt, prog) ==
  [k \in 1..Len(jt) |->
     IF k <= Len(prog) /\ IsJump(prog[k])
       THEN JumpTarget(GlobalJumpTable(prog), prog[k].tag, k - 1)
       ELSE jt[k]]
\* CPU.h:44-52: the jump table InitializeState leaves, given the one it finds
BuildJumpTable(jt, prog) == FillJumpTable(Resize(jt, JumpTableSize), prog)
\* CPU.h:54-55: a completion vector after InitializeState
ResizeCompleted(vec, ntasks) == Resize(vec, ntasks)

(***************************************************************************)
(* A freshly constructed CPUState (CPUState.h is outside src/): empty      *)
(* vectors and stacks, no pending reproduction, no location.               *)
(***************************************************************************)
\* emp::WorldPosition::invalid_id, written as a position no world has
invalid_id == 0
\* the positions of the world
Positions == {1, 2}
\* emp::WorldPosition::IsValid()
IsValid(loc) == loc # invalid_id
\* in_progress_repro of an organism that is not on the queue
NoRepro == -1
\* the registers of a core that has just been launched
FreshRegisters == [r \in Regs |-> U32(0)]


(***************************************************************************)
(* The state after every organism's CPU has been constructed               *)
(* (CPU.h:66-79): the program is the one given, the CPUState is fresh and  *)
(* InitializeState has run on it.                                          *)
(***************************************************************************)
Constructed(cfg, hosts, pts, progs) ==
  /\ config = cfg
  /\ host_of = hosts
  /\ points = pts
  /\ program = progs
  /\ pc = [o \in Orgs |-> 0]
  /\ registers = [o \in Orgs |-> FreshRegisters]
  /\ jump_table = [o \in Orgs |-> BuildJumpTable(<<>>, progs[o])]
  /\ self_completed = [o \in Orgs |-> ResizeCompleted(<<>>, cfg.NumTasks)]
  /\ shared_completed = [o \in Orgs |-> ResizeCompleted(<<>>, cfg.NumTasks)]
  /\ stack = [o \in Orgs |-> <<>>]
  /\ stack2 = [o \in Orgs |-> <<>>]
  /\ input_buf = [o \in Orgs |-> <<>>]
  /\ in_progress_repro = [o \in Orgs |-> NoRepro]
  /\ location = [o \in Orgs |-> invalid_id]
  /\ to_reproduce = <<>>
  /\ reproduce_mutex = NullOrg
  /\ data_nodes = [earned |-> <<>>, donated |-> <<>>, stolen |-> <<>>]
  /\ task_score = 0
  /\ at = [o \in Orgs |-> "idle"]
  /\ cycles = [o \in Orgs |-> 0]
  /\ tick_start = [o \in Orgs |-> 0]
  /\ repro_read = [o \in Orgs |-> {}]
  /\ sum_read = [o \in Orgs |-> 0]
  /\ to_transfer = [o \in Orgs |-> 0]
  /\ internalEnvironment = [o \in Orgs |-> <<>>]
  /\ internalEnvironmentPrivate = [o \in Orgs |-> <<>>]

(***************************************************************************)
(* CPU::Reset (CPU.h:88-92).  cpu.Reset() ends every core, so             *)
(* InitializeState launches a new one: fresh registers, program counter at *)
(* the start.  The CPUState is replaced by a fresh one before              *)
(* InitializeState runs on it.  Called by the thread that owns the CPU,    *)
(* between two steps.                                                      *)
(***************************************************************************)
\* CPU.h:90, the pending marker of the CPUState that replaces the old one
RebuiltMarkerKept(marker) == marker
RebuiltMarker(marker) == NoRepro
Reset(o) ==
  /\ at[o] = "idle"
  /\ pc' = [pc EXCEPT ![o] = 0]
  /\ registers' = [registers EXCEPT ![o] = FreshRegisters]
  /\ stack' = [stack EXCEPT ![o] = <<>>]
  /\ stack2' = [stack2 EXCEPT ![o] = <<>>]
  /\ input_buf' = [input_buf EXCEPT ![o] = <<>>]
  /\ in_progress_repro' = [in_progress_repro EXCEPT ![o] = RebuiltMarker(@)]
  /\ location' = [location EXCEPT ![o] = invalid_id]
  /\ jump_table' = [jump_table EXCEPT ![o] = BuildJumpTable(<<>>, program[o])]
  /\ self_completed' =
       [self_completed EXCEPT ![o] = ResizeCompleted(<<>>, config.NumTasks)]
  /\ shared_completed' =
       [shared_completed EXCEPT ![o] = ResizeCompleted(<<>>, config.NumTasks)]
  /\ tick_start' = [tick_start EXCEPT ![o] = Len(to_reproduce)]
  /\ repro_read' = [repro_read EXCEPT ![o] = {}]
  /\ internalEnvironment' = [internalEnvironment EXCEPT ![o] = <<>>]
  /\ internalEnvironmentPrivate' = [internalEnvironmentPrivate EXCEPT ![o] = <<>>]
  /\ UNCHANGED <<config, host_of, to_transfer, points, program, to_reproduce,
                 reproduce_mutex, worldVars, at, cycles, sum_read>>

(***************************************************************************)
(* CPU::Mutate (CPU.h:120-124).  ApplyPointMutations flips bits of the     *)
(* program in place: the length stays, and an instruction may become any   *)
(* other.  One call changes at most one instruction here; repeated calls   *)
(* change more.  InitializeState then runs on the CPUState as it is.       *)
(***************************************************************************)
\* the instructions a mutation can produce in the runs of SpecBuild
BuildInsts ==
  {Anchor(0), Anchor(1), Inst(JumpNeq, 0, 1, 0, 0), Inst(JumpNeq, 0, 1, 0, 3),
   Inst(JumpLess, 0, 1, 0, 1)}
PointMutations(prog) ==
  {prog} \cup {[prog EXCEPT ![k] = i] : k \in 1..Len(prog), i \in BuildInsts}
\* CPU.h:123, the call of InitializeState on the mutated program
MutateRebuild(jt, prog) == BuildJumpTable(jt, prog)
Mutate(o) ==
  /\ at[o] = "idle"
  /\ \E prog \in PointMutations(program[o]) :
       /\ program' = [program EXCEPT ![o] = prog]
       /\ jump_table' = [jump_table EXCEPT ![o] = MutateRebuild(@, prog)]
  /\ self_completed' =
       [self_completed EXCEPT ![o] = ResizeCompleted(@, config.NumTasks)]
  /\ shared_completed' =
       [shared_completed EXCEPT ![o] = ResizeCompleted(@, config.NumTasks)]
  /\ UNCHANGED <<config, host_of, envVars, to_transfer,
                 points, coreVars, stackVars, input_buf,
                 reproVars, location, worldVars, at, cycles, histVars>>

(***************************************************************************)
(* SpecBuild: one CPU is constructed on any program of at most MaxProgLen  *)
(* instructions and a task set of no task or of MaxTasks tasks, and is     *)
(* then reset and mutated in any order.                                    *)
(***************************************************************************)
MaxTasks == 2
RECURSIVE ProgramsOfLen(_)
ProgramsOfLen(n) ==
  IF n = 0 THEN {<<>>}
  ELSE {Append(prog, i) : prog \in ProgramsOfLen(n - 1), i \in BuildInsts}
BuildPrograms == UNION {ProgramsOfLen(n) : n \in 0..MaxProgLen}
\* the organism whose CPU SpecBuild follows
BuildOrgs == {1}
\* the program of the other organisms
RestProgram == <<Op0("Reproduce")>>
Config(repro, horiz, inst, donate, steal, random, ntasks) ==
  [HOST_REPRO_RES |-> repro, SYM_HORIZ_TRANS_RES |-> horiz,
   DONATION_STEAL_INST |-> inst, DONATE_PENALTY |-> donate,
   STEAL_PENALTY |-> steal, RANDOM_IO_INPUT |-> random, NumTasks |-> ntasks]
NoHosts == [o \in Orgs |-> NullOrg]
InitBuild ==
  \E ntasks \in {0, MaxTasks}, prog \in BuildPrograms :
    Constructed(Config(1, 1, FALSE, 0, 0, FALSE, ntasks), NoHosts,
                [o \in Orgs |-> 0],
                [o \in Orgs |-> IF o \in BuildOrgs THEN prog ELSE RestProgram])
NextBuild == \E o \in BuildOrgs : Reset(o) \/ Mutate(o)
SpecBuild == InitBuild /\ [][NextBuild]_vars


(***************************************************************************)
(* Points.  One point is PointUnit units, a multiple of 4 and of           *)
(* 50^MaxTransfers: three quarters of a score, a fifth of a sum of         *)
(* balances and a tenth of a transfer are then whole numbers of units for  *)
(* MaxTransfers transfers in a row.  Penalties are counted in tenths.      *)
(***************************************************************************)
RECURSIVE Pow(_, _)
Pow(b, e) == IF e = 0 THEN 1 ELSE b * Pow(b, e - 1)
PointUnit == 4 * Pow(50, MaxTransfers)
Pts(n) == n * PointUnit
Min(x, y) == IF x <= y THEN x ELSE y
\* std::vector::back()
Last(seq) == seq[Len(seq)]
\* x * 0.20
TimesFifth(x) == x \div 5
\* x * 0.75
TimesThreeQuarters(x) == (x \div 4) * 3
\* x * (1.0 - penalty), the penalty in tenths
AfterPenalty(x, penalty) == (x \div 10) * (10 - penalty)

(***************************************************************************)
(* The instruction engine (sgpl::execute_cpu_n_cycles, outside src/): each *)
(* cycle runs the instruction at the program counter and then advances the *)
(* program counter past it, wrapping at the end of the program.            *)
(***************************************************************************)
Fetch(o) == program[o][pc[o] + 1]
Executing(o, op) == at[o] = "exec" /\ Fetch(o).op = op
\* the operand registers *a, *b of the instruction at the program counter
RegA(o) == Fetch(o).args[1]
RegB(o) == Fetch(o).args[2]
ValA(o) == registers[o][RegA(o)]
ValB(o) == registers[o][RegB(o)]
\* the instruction has returned
Retire(o) == at' = [at EXCEPT ![o] = "advance"]
AdvanceProgramCounter(o) ==
  /\ at[o] = "advance"
  /\ pc' = [pc EXCEPT ![o] = (@ + 1) % Len(program[o])]
  /\ cycles' = [cycles EXCEPT ![o] = @ - 1]
  /\ at' = [at EXCEPT ![o] = IF cycles[o] > 1 THEN "exec" ELSE "idle"]
  /\ UNCHANGED <<config, host_of, envVars, to_transfer,
                 points, program, registers, tableVars,
                 stackVars, input_buf, reproVars, location, worldVars,
                 histVars>>

(***************************************************************************)
(* CPU::RunCPUStep (CPU.h:103-111); the core is active since construction. *)
(***************************************************************************)
RunCPUStep(o, loc, n_cycles) ==
  /\ at[o] = "idle"
  /\ location' = [location EXCEPT ![o] = loc]
  /\ cycles' = [cycles EXCEPT ![o] = IF Len(program[o]) = 0 THEN 0 ELSE n_cycles]
  /\ at' = [at EXCEPT ![o] =
              IF Len(program[o]) = 0 \/ n_cycles = 0 THEN "idle" ELSE "exec"]
  /\ UNCHANGED <<config, host_of, envVars, to_transfer,
                 points, program, coreVars, tableVars,
                 stackVars, input_buf, reproVars, worldVars, histVars>>

(***************************************************************************)
(* JumpIfNEq, JumpIfLess (part_000:40-50)                                  *)
(***************************************************************************)
NEqTakenWhenEqual(a, b) == U32Eq(a, b)
NEqTaken(a, b) == ~U32Eq(a, b)
LessTaken(a, b) == U32Less(a, b)
\* core.JumpToIndex(state.jump_table[core.GetProgramCounter()])
JumpToTableEntry(o) == pc' = [pc EXCEPT ![o] = jump_table[o][pc[o] + 1]]
JumpIfNEq(o) ==
  /\ Executing(o, JumpNeq)
  /\ IF NEqTaken(ValA(o), ValB(o)) THEN JumpToTableEntry(o) ELSE UNCHANGED pc
  /\ Retire(o)
  /\ UNCHANGED <<config, host_of, envVars, to_transfer,
                 points, program, registers, tableVars,
                 stackVars, input_buf, reproVars, location, worldVars,
                 cycles, histVars>>
JumpIfLess(o) ==
  /\ Executing(o, JumpLess)
  /\ IF LessTaken(ValA(o), ValB(o)) THEN JumpToTableEntry(o) ELSE UNCHANGED pc
  /\ Retire(o)
  /\ UNCHANGED <<config, host_of, envVars, to_transfer,
                 points, program, registers, tableVars,
                 stackVars, input_buf, reproVars, location, worldVars,
                 cycles, histVars>>

(***************************************************************************)
(* Increment (part_000:51)                                                 *)
(***************************************************************************)
Increment(o) ==
  /\ Executing(o, "Increment")
  /\ registers' = [registers EXCEPT ![o][RegA(o)] = U32Inc(@)]
  /\ Retire(o)
  /\ UNCHANGED <<config, host_of, envVars, to_transfer,
                 points, program, pc, tableVars, stackVars,
                 input_buf, reproVars, location, worldVars, cycles, histVars>>

(***************************************************************************)
(* Push, Pop, SwapStack (part_000:59-73)                                   *)
(***************************************************************************)
\* part_000:61, the cap on an organism's stack
StackCap == 16
PushedUnbounded(stk, v) == Append(stk, v)
Pushed(stk, v) == IF Len(stk) < StackCap THEN Append(stk, v) ELSE stk
\* the value Pop writes to *a, and the stack it leaves
PoppedValue(stk) == IF stk = <<>> THEN U32(0) ELSE stk[Len(stk)]
PoppedStack(stk) == IF stk = <<>> THEN stk ELSE SubSeq(stk, 1, Len(stk) - 1)
Push(o) ==
  /\ Executing(o, "Push")
  /\ stack' = [stack EXCEPT ![o] = Pushed(@, ValA(o))]
  /\ Retire(o)
  /\ UNCHANGED <<config, host_of, envVars, to_transfer,
                 points, program, coreVars, tableVars,
                 stack2, input_buf, reproVars, location, worldVars, cycles,
                 histVars>>
Pop(o) ==
  /\ Executing(o, "Pop")
  /\ registers' = [registers EXCEPT ![o][RegA(o)] = PoppedValue(stack[o])]
  /\ stack' = [stack EXCEPT ![o] = PoppedStack(@)]
  /\ Retire(o)
  /\ UNCHANGED <<config, host_of, envVars, to_transfer,
                 points, program, pc, tableVars, stack2,
                 input_buf, reproVars, location, worldVars, cycles, histVars>>
SwapStack(o) ==
  /\ Executing(o, "SwapStack")
  /\ stack' = [stack EXCEPT ![o] = stack2[o]]
  /\ stack2' = [stack2 EXCEPT ![o] = stack[o]]
  /\ Retire(o)
  /\ UNCHANGED <<config, host_of, envVars, to_transfer,
                 points, program, coreVars, tableVars,
                 input_buf, reproVars, location, worldVars, cycles, histVars>>

(***************************************************************************)
(* Reproduce (part_000:75-91).  `state.host` is the organism that owns the *)
(* CPU.  The balance is read and debited through the organism's own        *)
(* operations, one at a time; the two statements under the lock_guard and  *)
(* the release at the end of its scope are steps of their own.             *)
(***************************************************************************)
\* part_000:78, the early return
RefusedIgnoresPending(marker, loc) == ~IsValid(loc)
Refused(marker, loc) == marker # NoRepro \/ ~IsValid(loc)
\* part_000:80-82
ReproCost(o) ==
  IF IsHost(o) THEN config.HOST_REPRO_RES ELSE config.SYM_HORIZ_TRANS_RES
\* part_000:83
AffordsAtCost(balance, cost) == balance >= cost
Affords(balance, cost) == balance > cost
\* part_000:87, std::lock_guard: blocks while another thread owns the mutex
LockAlwaysFree(owner) == TRUE
LockFree(owner) == owner = NullOrg
Reproduce(o) ==
  /\ Executing(o, "Reproduce")
  /\ IF Refused(in_progress_repro[o], location[o])
       THEN Retire(o) /\ UNCHANGED repro_read
       ELSE /\ repro_read' = [repro_read EXCEPT ![o] = @ \cup {points[o]}]
            /\ IF Affords(points[o], ReproCost(o))
                 THEN at' = [at EXCEPT ![o] = "deduct"]
                 ELSE Retire(o)
  /\ UNCHANGED <<config, host_of, envVars, to_transfer,
                 points, program, coreVars, tableVars,
                 stackVars, input_buf, reproVars, location, worldVars,
                 cycles, tick_start, sum_read>>
\* part_000:84, the balance after AddPoints(-points)
DeductedTwice(balance, cost) == balance - cost - cost
Deducted(balance, cost) == balance - cost
ReproduceDeduct(o) ==
  /\ at[o] = "deduct"
  /\ points' = [points EXCEPT ![o] = Deducted(@, ReproCost(o))]
  /\ at' = [at EXCEPT ![o] = "lock"]
  /\ UNCHANGED <<config, host_of, envVars, to_transfer,
                 program, coreVars, tableVars, stackVars,
                 input_buf, reproVars, location, worldVars, cycles, histVars>>
\* part_000:87
ReproduceLock(o) ==
  /\ at[o] = "lock"
  /\ LockFree(reproduce_mutex)
  /\ reproduce_mutex' = o
  /\ at' = [at EXCEPT ![o] = "size"]
  /\ UNCHANGED <<config, host_of, envVars, to_transfer,
                 points, program, coreVars, tableVars,
                 stackVars, input_buf, in_progress_repro, to_reproduce,
                 location, worldVars, cycles, histVars>>
\* part_000:88, state.world->to_reproduce.size()
QueueSizePlusOne(queue) == Len(queue) + 1
QueueSize(queue) == Len(queue)
ReproduceSize(o) ==
  /\ at[o] = "size"
  /\ in_progress_repro' = [in_progress_repro EXCEPT ![o] = QueueSize(to_reproduce)]
  /\ at' = [at EXCEPT ![o] = "push"]
  /\ UNCHANGED <<config, host_of, envVars, to_transfer,
                 points, program, coreVars, tableVars,
                 stackVars, input_buf, to_reproduce, reproduce_mutex,
                 location, worldVars, cycles, histVars>>
\* part_000:89
ReproducePush(o) ==
  /\ at[o] = "push"
  /\ to_reproduce' = Append(to_reproduce, [org |-> o, pos |-> location[o]])
  /\ at' = [at EXCEPT ![o] = "unlock"]
  /\ UNCHANGED <<config, host_of, envVars, to_transfer,
                 points, program, coreVars, tableVars,
                 stackVars, input_buf, in_progress_repro, reproduce_mutex,
                 location, worldVars, cycles, histVars>>
\* part_000:90, the end of the lock_guard's scope
\* part_000:90, the end of the lock_guard's scope: the owner of the mutex after it
StillOwned(owner) == owner
Released(owner) == NullOrg
ReproduceUnlock(o) ==
  /\ at[o] = "unlock"
  /\ reproduce_mutex' = Released(reproduce_mutex)
  /\ Retire(o)
  /\ UNCHANGED <<config, host_of, envVars, to_transfer,
                 points, program, coreVars, tableVars,
                 stackVars, input_buf, in_progress_repro, to_reproduce,
                 location, worldVars, cycles, histVars>>

(***************************************************************************)
(* PrivateIO, AddOrganismPoints, SharedIO (part_000:93-135).  The score is *)
(* the task set's (Tasks.h, outside src/): task_score, which is any of the *)
(* scores of the run and is drawn again after every call.                  *)
(***************************************************************************)
\* the data node after WithMonitor(... m.AddDatum(x))
AddDatum(node, x) == [data_nodes EXCEPT ![node] = Append(@, x)]
\* part_000:95-104, what PrivateIO adds to the balance
PrivateCreditUndiscounted(o, score) == score
PrivateCredit(o, score) ==
  IF score # 0 THEN (IF ~IsHost(o) THEN score ELSE TimesThreeQuarters(score))
  ELSE 0
\* part_000:116-118, what AddOrganismPoints adds to the balance
SharedCredit(o, score) == IF score # 0 THEN score ELSE 0
\* part_000:97-98 and 118-121: a symbiont's non-zero score is recorded
EarnedAfter(o, score) ==
  IF score # 0 /\ ~IsHost(o) THEN AddDatum("earned", score) ELSE data_nodes
\* part_000:105-110, the values `next` can take
NextInputsAlwaysRandom(random_bits) == random_bits
NextInputs(random_bits) ==
  IF config.RANDOM_IO_INPUT THEN random_bits ELSE {U32(1)}
\* part_000:111-112
TakeInput(o, next) ==
  /\ registers' = [registers EXCEPT ![o][RegA(o)] = next]
  /\ input_buf' = [input_buf EXCEPT ![o] = Append(@, next)]
\* CheckTasks (Tasks.h, outside src/) records the task a non-zero score is
\* earned for: in state.self_completed when `shared` is false, in the
\* vector state.shared_completed points to when it is true
MarkedBy(vec, score) ==
  IF score = 0 \/ Len(vec) = 0 THEN {vec}
  ELSE {[vec EXCEPT ![task] = 1] : task \in 1..Len(vec)}
CheckTasks(o, shared) ==
  IF shared
    THEN /\ \E vec \in MarkedBy(shared_completed[o], task_score) :
              shared_completed' = [shared_completed EXCEPT ![o] = vec]
         /\ UNCHANGED self_completed
    ELSE /\ \E vec \in MarkedBy(self_completed[o], task_score) :
              self_completed' = [self_completed EXCEPT ![o] = vec]
         /\ UNCHANGED shared_completed
PrivateIO(o, scores, random_bits) ==
  /\ Executing(o, "PrivateIO")
  /\ CheckTasks(o, FALSE)
  /\ points' = [points EXCEPT ![o] = @ + PrivateCredit(o, task_score)]
  /\ data_nodes' = EarnedAfter(o, task_score)
  /\ task_score' \in scores
  /\ \E next \in NextInputs(random_bits) : TakeInput(o, next)
  /\ Retire(o)
  /\ UNCHANGED <<config, host_of, envVars, to_transfer,
                 program, pc, jump_table, stackVars,
                 reproVars, location, cycles, histVars>>
\* part_000:114-123.  The CPUState is passed by value: what CheckTasks
\* records reaches the vector shared_completed points to.
AddOrganismPoints(o, scores) ==
  /\ CheckTasks(o, TRUE)
  /\ points' = [points EXCEPT ![o] = @ + SharedCredit(o, task_score)]
  /\ data_nodes' = EarnedAfter(o, task_score)
  /\ task_score' \in scores
SharedIO(o, scores, random_bits) ==
  /\ Executing(o, "SharedIO")
  /\ AddOrganismPoints(o, scores)
  /\ \E next \in NextInputs(random_bits) : TakeInput(o, next)
  /\ Retire(o)
  /\ UNCHANGED <<config, host_of, envVars, to_transfer,
                 program, pc, jump_table, stackVars,
                 reproVars, location, cycles, histVars>>

(***************************************************************************)
(* ReuptakePublic, ReuptakePrivate (part_000:174-205)                      *)
(***************************************************************************)
\* part_000:178-179 and 194-195, the resource taken from the environment
ReuptakenFromFront(env) == Head(env)
Reuptaken(env) == Last(env)
\* part_000:182, pop_back()
PopBack(env) == SubSeq(env, 1, Len(env) - 1)
ReuptakePublic(o, scores) ==
  /\ Executing(o, "ReuptakePublic")
  /\ AddOrganismPoints(o, scores)
  /\ IF Len(internalEnvironment[o]) > 0
       THEN LET next == Reuptaken(internalEnvironment[o])
            IN /\ internalEnvironment' =
                    [internalEnvironment EXCEPT ![o] = PopBack(@)]
               /\ registers' = [registers EXCEPT ![o][RegA(o)] = next]
               /\ input_buf' = [input_buf EXCEPT ![o] = Append(@, next)]
       ELSE /\ registers' = [registers EXCEPT ![o][RegA(o)] = U32(0)]
            /\ UNCHANGED <<internalEnvironment, input_buf>>
  /\ Retire(o)
  /\ UNCHANGED <<config, host_of, internalEnvironmentPrivate, to_transfer,
                 program, pc, jump_table, stackVars, reproVars, location,
                 cycles, histVars>>
ReuptakePrivate(o, scores) ==
  /\ Executing(o, "ReuptakePrivate")
  /\ AddOrganismPoints(o, scores)
  /\ IF Len(internalEnvironmentPrivate[o]) > 0
       THEN LET next == Reuptaken(internalEnvironmentPrivate[o])
            IN /\ internalEnvironmentPrivate' =
                    [internalEnvironmentPrivate EXCEPT ![o] = PopBack(@)]
               /\ registers' = [registers EXCEPT ![o][RegA(o)] = next]
               /\ input_buf' = [input_buf EXCEPT ![o] = Append(@, next)]
       ELSE /\ registers' = [registers EXCEPT ![o][RegA(o)] = U32(0)]
            /\ UNCHANGED <<internalEnvironmentPrivate, input_buf>>
  /\ Retire(o)
  /\ UNCHANGED <<config, host_of, internalEnvironment, to_transfer,
                 program, pc, jump_table, stackVars, reproVars, location,
                 cycles, histVars>>

(***************************************************************************)
(* Donate, Steal (part_000:136-172)                                        *)
(***************************************************************************)
\* part_000:137-140 and 155-158: the instruction takes effect
TransfersUnconfigured(o) == ~IsHost(o) /\ host_of[o] # NullOrg
Transfers(o) ==
  config.DONATION_STEAL_INST /\ ~IsHost(o) /\ host_of[o] # NullOrg
\* part_000:144-146
ToDonateUncapped(sym, host) == TimesFifth(sym + host)
ToDonate(sym, host) == Min(sym, TimesFifth(sym + host))
\* part_000:163-165
ToSteal(sym, host) == Min(host, TimesFifth(sym + host))
\* part_000:149, what the host receives
Donated(amount) == AfterPenalty(amount, config.DONATE_PENALTY)
\* part_000:169, what the symbiont receives
StolenNoPenalty(amount) == amount
Stolen(amount) == AfterPenalty(amount, config.STEAL_PENALTY)
\* the organism is at the step `step` of the instruction at its program counter
Transferring(o, op, step) == at[o] = step /\ Fetch(o).op = op
\* part_000:137-148: the conditions, the reads of the two balances and the
\* record on the monitoring sink
Donate(o) ==
  /\ Executing(o, "Donate")
  /\ IF Transfers(o)
       THEN LET host == host_of[o]
                to_donate == ToDonate(points[o], points[host])
            IN /\ to_transfer' = [to_transfer EXCEPT ![o] = to_donate]
               /\ sum_read' = [sum_read EXCEPT ![o] = points[o] + points[host]]
               /\ data_nodes' = AddDatum("donated", to_donate)
               /\ at' = [at EXCEPT ![o] = "credit"]
       ELSE /\ UNCHANGED <<data_nodes, to_transfer, sum_read>>
            /\ Retire(o)
  /\ UNCHANGED <<config, host_of, envVars, points,
                 program, coreVars, tableVars, stackVars,
                 input_buf, reproVars, location, task_score, cycles,
                 tick_start, repro_read>>
\* part_000:149
DonateCredit(o) ==
  /\ Transferring(o, "Donate", "credit")
  /\ points' = [points EXCEPT ![host_of[o]] = @ + Donated(to_transfer[o])]
  /\ at' = [at EXCEPT ![o] = "debit"]
  /\ UNCHANGED <<config, host_of, envVars, to_transfer,
                 program, coreVars, tableVars, stackVars,
                 input_buf, reproVars, location, worldVars, cycles, histVars>>
\* part_000:150
DonateDebit(o) ==
  /\ Transferring(o, "Donate", "debit")
  /\ points' = [points EXCEPT ![o] = @ - to_transfer[o]]
  /\ Retire(o)
  /\ UNCHANGED <<config, host_of, envVars, to_transfer,
                 program, coreVars, tableVars, stackVars,
                 input_buf, reproVars, location, worldVars, cycles, histVars>>
\* part_000:155-167
Steal(o) ==
  /\ Executing(o, "Steal")
  /\ IF Transfers(o)
       THEN LET host == host_of[o]
                to_steal == ToSteal(points[o], points[host])
            IN /\ to_transfer' = [to_transfer EXCEPT ![o] = to_steal]
               /\ sum_read' = [sum_read EXCEPT ![o] = points[o] + points[host]]
               /\ data_nodes' = AddDatum("stolen", to_steal)
               /\ at' = [at EXCEPT ![o] = "debit"]
       ELSE /\ UNCHANGED <<data_nodes, to_transfer, sum_read>>
            /\ Retire(o)
  /\ UNCHANGED <<config, host_of, envVars, points,
                 program, coreVars, tableVars, stackVars,
                 input_buf, reproVars, location, task_score, cycles,
                 tick_start, repro_read>>
\* part_000:168
StealDebit(o) ==
  /\ Transferring(o, "Steal", "debit")
  /\ points' = [points EXCEPT ![host_of[o]] = @ - to_transfer[o]]
  /\ at' = [at EXCEPT ![o] = "credit"]
  /\ UNCHANGED <<config, host_of, envVars, to_transfer,
                 program, coreVars, tableVars, stackVars,
                 input_buf, reproVars, location, worldVars, cycles, histVars>>
\* part_000:169
StealCredit(o) ==
  /\ Transferring(o, "Steal", "credit")
  /\ points' = [points EXCEPT ![o] = @ + Stolen(to_transfer[o])]
  /\ Retire(o)
  /\ UNCHANGED <<config, host_of, envVars, to_transfer,
                 program, coreVars, tableVars, stackVars,
                 input_buf, reproVars, location, worldVars, cycles, histVars>>

(***************************************************************************)
(* Spec: the world steps its organisms in parallel.  Every organism runs   *)
(* a program of Reproduce and SwapStack instructions; the world calls      *)
(* RunCPUStep on an idle organism with a valid position or with            *)
(* invalid_id and with a budget of at most MaxCycles, and resets the CPU   *)
(* of an idle organism when it pleases.                                    *)
(***************************************************************************)
ReproPrograms ==
  [o \in Orgs |-> IF IsHost(o) THEN <<Op0("Reproduce"), Op0("SwapStack")>>
                  ELSE <<Op0("Reproduce")>>]
ReproConfig == Config(Pts(2), Pts(1), FALSE, 0, 0, FALSE, 1)
\* balances at and above the organism's cost and, for the host, above twice
\* its cost
ReproBalances(o) ==
  IF IsHost(o) THEN {Pts(2), Pts(3), Pts(5)} ELSE {Pts(1), Pts(2)}
Init ==
  \E pts \in {f \in [Orgs -> {Pts(n) : n \in 0..5}] :
                \A o \in Orgs : f[o] \in ReproBalances(o)} :
    Constructed(ReproConfig, [o \in Orgs |-> IF IsHost(o) THEN NullOrg ELSE 1],
                pts, ReproPrograms)
Next ==
  \E o \in Orgs :
    \/ \E loc \in Positions \cup {invalid_id}, n \in 1..MaxCycles :
         RunCPUStep(o, loc, n)
    \/ Reproduce(o)
    \/ ReproduceDeduct(o)
    \/ ReproduceLock(o)
    \/ ReproduceSize(o)
    \/ ReproducePush(o)
    \/ ReproduceUnlock(o)
    \/ SwapStack(o)
    \/ AdvanceProgramCounter(o)
    \/ Reset(o)
Spec == Init /\ [][Next]_vars

(***************************************************************************)
(* Global Anchor (sgpl, outside src/): an anchor does nothing when it is   *)
(* executed.                                                               *)
(***************************************************************************)
GlobalAnchor(o) ==
  /\ Executing(o, "Global Anchor")
  /\ Retire(o)
  /\ UNCHANGED <<config, host_of, envVars, to_transfer,
                 points, program, coreVars, tableVars,
                 stackVars, input_buf, reproVars, location, worldVars, cycles,
                 histVars>>

(***************************************************************************)
(* SpecCPU: one organism runs one step, one pass over its program, while   *)
(* the other organism stays idle.  The initial states are the states of    *)
(* the runner just after RunCPUStep has stored the location: its CPU has   *)
(* been constructed on the program, and its registers, the balances and    *)
(* the configuration are those the run is about.                           *)
(***************************************************************************)
Stepping(runner, cfg, hosts, pts, prog, regs, score) ==
  /\ config = cfg
  /\ host_of = hosts
  /\ points = pts
  /\ program = [o \in Orgs |-> IF o = runner THEN prog ELSE RestProgram]
  /\ pc = [o \in Orgs |-> 0]
  /\ registers = [o \in Orgs |-> IF o = runner THEN regs ELSE FreshRegisters]
  /\ jump_table = [o \in Orgs |-> BuildJumpTable(<<>>, program[o])]
  /\ self_completed = [o \in Orgs |-> ResizeCompleted(<<>>, cfg.NumTasks)]
  /\ shared_completed = [o \in Orgs |-> ResizeCompleted(<<>>, cfg.NumTasks)]
  /\ stack = [o \in Orgs |-> <<>>]
  /\ stack2 = [o \in Orgs |-> <<>>]
  /\ input_buf = [o \in Orgs |-> <<>>]
  /\ in_progress_repro = [o \in Orgs |-> NoRepro]
  /\ location = [o \in Orgs |-> invalid_id]
  /\ to_reproduce = <<>>
  /\ reproduce_mutex = NullOrg
  /\ data_nodes = [earned |-> <<>>, donated |-> <<>>, stolen |-> <<>>]
  /\ task_score = score
  /\ at = [o \in Orgs |-> IF o = runner THEN "exec" ELSE "idle"]
  /\ cycles = [o \in Orgs |-> IF o = runner THEN Len(prog) ELSE 0]
  /\ tick_start = [o \in Orgs |-> 0]
  /\ repro_read = [o \in Orgs |-> {}]
  /\ sum_read = [o \in Orgs |-> 0]
  /\ to_transfer = [o \in Orgs |-> 0]
PlainConfig == Config(Pts(2), Pts(1), FALSE, 0, 0, FALSE, 1)
NoPoints == [o \in Orgs |-> 0]
HostedBy1 == [o \in Orgs |-> IF IsHost(o) THEN NullOrg ELSE 1]

\* programs of the stack runs
RECURSIVE Repeat(_, _)
Repeat(block, n) == IF n = 0 THEN <<>> ELSE block \o Repeat(block, n - 1)
\* pushes the values r0 + 1 .. r0 + k
Fill(k) == Repeat(<<Op1("Increment", 0), Op1("Push", 0)>>, k)
Drain(m) == Repeat(<<Op1("Pop", 1)>>, m)
\* pops the primary stack onto the secondary stack, m times
Transfer(m) ==
  Repeat(<<Op1("Pop", 1), Op0("SwapStack"), Op1("Push", 1), Op0("SwapStack")>>, m)
\* one push too many, every value popped onto the secondary stack, and one
\* pop too many
RoundTripProgram ==
  Fill(StackCap + 1) \o Transfer(StackCap) \o <<Op1("Pop", 1)>>
StackPrograms ==
  {Fill(k) \o Drain(m) : k \in {0, 1, StackCap, StackCap + 1},
                         m \in {1, 2, StackCap + 1}}
    \cup {Fill(k) \o <<Op0("SwapStack")>> \o Fill(j) \o
            <<Op0("SwapStack"), Op1("Push", 0), Op1("Pop", 1), Op0("SwapStack"),
              Op1("Pop", 1)>> :
          k \in {0, StackCap + 1}, j \in {1, StackCap, StackCap + 1}}
    \cup {RoundTripProgram}
\* the register values the runs start from
RegValues == {U32(5), U32(6), MaxU32}
InitStackRuns ==
  \E prog \in StackPrograms, v \in {U32(0), MaxU32} :
    Stepping(1, PlainConfig, HostedBy1, NoPoints, prog,
             [FreshRegisters EXCEPT ![0] = v], 0)

\* programs of the jump runs: a jump at index 2, an anchor at index 7
JumpProgram(op, tag, anchor) ==
  <<Op1("Increment", 2), Op1("Increment", 2), Inst(op, 0, 1, 0, tag),
    Op1("Increment", 2), Op1("Increment", 2), Op1("Increment", 2),
    Op1("Increment", 2), Anchor(anchor)>>
InitJumpRuns ==
  \E op \in {JumpNeq, JumpLess}, tag \in {0, 3}, a \in RegValues, b \in RegValues :
    Stepping(1, PlainConfig, HostedBy1, NoPoints, JumpProgram(op, tag, 0),
             [FreshRegisters EXCEPT ![0] = a, ![1] = b], 0)

\* the scores of the task set, and the random bits of the input, in the runs
Scores == {0, Pts(10)}
RandomBits == {U32(0), MaxU32}
IOPrograms ==
  {<<Op1("PrivateIO", 0)>>, <<Op1("SharedIO", 0)>>,
   <<Op1("PrivateIO", 0), Op1("SharedIO", 1)>>,
   <<Op1("SharedIO", 1), Op1("PrivateIO", 1)>>}
InitIORuns ==
  \E runner \in Orgs, prog \in IOPrograms, random \in BOOLEAN,
     score \in Scores, p \in {0, Pts(3)} :
    Stepping(runner, Config(Pts(2), Pts(1), FALSE, 0, 0, random, 1), HostedBy1,
             [o \in Orgs |-> p], prog, FreshRegisters, score)

\* the runs of Donate and Steal: at most MaxTransfers of them in a row
RECURSIVE TransferPrograms(_)
TransferPrograms(n) ==
  IF n = 0 THEN {<<>>}
  ELSE {Append(prog, i) : prog \in TransferPrograms(n - 1),
                          i \in {Op0("Donate"), Op0("Steal")}}
\* penalties, in tenths
Penalties == {0, 1, 10}
Balances == {0, Pts(1), Pts(4), Pts(10)}
InitTransferRuns ==
  \E runner \in Orgs, n \in 1..MaxTransfers, enabled \in BOOLEAN,
     hosted \in BOOLEAN, donate \in Penalties, steal \in Penalties,
     sym \in Balances, host \in Balances :
    \E prog \in TransferPrograms(n) :
      Stepping(runner, Config(Pts(2), Pts(1), enabled, donate, steal, FALSE, 1),
               IF hosted THEN HostedBy1 ELSE NoHosts,
               [o \in Orgs |-> IF IsHost(o) THEN host ELSE sym], prog,
               FreshRegisters, 0)

\* the runs of ReuptakePublic and ReuptakePrivate, over internal
\* environments that hold no, one or two values
ReuptakePrograms ==
  {<<Op1("ReuptakePublic", 0)>>, <<Op1("ReuptakePrivate", 0)>>,
   <<Op1("ReuptakePublic", 0), Op1("ReuptakePrivate", 1)>>,
   <<Op1("ReuptakePrivate", 1), Op1("ReuptakePublic", 1),
     Op1("ReuptakePublic", 0)>>}
PublicEnvironments == {<<>>, <<U32(7)>>, <<U32(7), U32(8)>>}
PrivateEnvironments == {<<>>, <<U32(9), MaxU32>>}
Environments(runner, public, private) ==
  /\ internalEnvironment = [o \in Orgs |-> IF o = runner THEN public ELSE <<>>]
  /\ internalEnvironmentPrivate =
       [o \in Orgs |-> IF o = runner THEN private ELSE <<>>]
InitReuptakeRuns ==
  \E runner \in Orgs, prog \in ReuptakePrograms, score \in Scores,
     public \in PublicEnvironments, private \in PrivateEnvironments :
    /\ Stepping(runner, PlainConfig, HostedBy1, NoPoints, prog,
                [r \in Regs |-> U32(5)], score)
    /\ Environments(runner, public, private)

InitCPU ==
  \/ /\ InitStackRuns \/ InitJumpRuns \/ InitIORuns \/ InitTransferRuns
     /\ Environments(NullOrg, <<>>, <<>>)
  \/ InitReuptakeRuns
NextCPU ==
  \E o \in Orgs :
    \/ JumpIfNEq(o)
    \/ JumpIfLess(o)
    \/ Increment(o)
    \/ Push(o)
    \/ Pop(o)
    \/ SwapStack(o)
    \/ PrivateIO(o, Scores, RandomBits)
    \/ SharedIO(o, Scores, RandomBits)
    \/ ReuptakePublic(o, Scores)
    \/ ReuptakePrivate(o, Scores)
    \/ Donate(o)
    \/ DonateCredit(o)
    \/ DonateDebit(o)
    \/ Steal(o)
    \/ StealDebit(o)
    \/ StealCredit(o)
    \/ GlobalAnchor(o)
    \/ AdvanceProgramCounter(o)
SpecCPU == InitCPU /\ [][NextCPU]_vars

(***************************************************************************)
(* SpecLife: the life of one organism, a symbiont.  The world steps it,    *)
(* resets it and mutates it in any order while it is not inside a step;    *)
(* its program reproduces and performs I/O, and mutations turn its         *)
(* instructions into anchors and jumps; the world mutates the program it   *)
(* was born with.  The world stops stepping it once its input buffer holds *)
(* MaxInputs values or it has earned MaxEarned scores.                     *)
(***************************************************************************)
MaxInputs == 2
MaxEarned == 2
LifeOrgs == {2}
LifePrograms ==
  {<<Op0("Reproduce"), Op1("PrivateIO", 0)>>,
   <<Op1("SharedIO", 0), Op0("Reproduce")>>}
LifeScores == {0, Pts(1)}
InitLife ==
  \E prog \in LifePrograms :
    Constructed(Config(Pts(2), Pts(1), FALSE, 0, 0, FALSE, 1), HostedBy1,
                [o \in Orgs |-> Pts(2)],
                [o \in Orgs |-> IF o \in LifeOrgs THEN prog ELSE RestProgram])
NextLife ==
  \E o \in LifeOrgs :
    \/ /\ Len(input_buf[o]) < MaxInputs
       /\ Len(data_nodes.earned) < MaxEarned
       /\ \E loc \in Positions \cup {invalid_id}, n \in 1..MaxCycles :
            RunCPUStep(o, loc, n)
    \/ Reproduce(o)
    \/ ReproduceDeduct(o)
    \/ ReproduceLock(o)
    \/ ReproduceSize(o)
    \/ ReproducePush(o)
    \/ ReproduceUnlock(o)
    \/ PrivateIO(o, LifeScores, RandomBits)
    \/ SharedIO(o, LifeScores, RandomBits)
    \/ JumpIfNEq(o)
    \/ JumpIfLess(o)
    \/ GlobalAnchor(o)
    \/ AdvanceProgramCounter(o)
    \/ Reset(o)
    \/ program[o] \in LifePrograms /\ Mutate(o)
SpecLife == InitLife /\ [][NextLife]_vars

(***************************************************************************)
(* SpecTick: one tick of the world.  The scheduler calls RunCPUStep once   *)
(* on the host and once on its symbiont, each with a valid position and a  *)
(* budget of at most MaxCycles, and the two steps run in parallel, one     *)
(* statement of Reproduce, Donate and Steal at a time.  Every thread that  *)
(* can take a step eventually takes one.                                   *)
(***************************************************************************)
TickHostPrograms ==
  {<<Op0("Reproduce")>>, <<Op0("Reproduce"), Op0("SwapStack")>>}
TickSymPrograms ==
  {<<Op0("Steal")>>, <<Op0("Donate")>>,
   <<Op0("Steal"), Op0("Reproduce")>>, <<Op0("Reproduce"), Op0("Donate")>>}
\* balances of the host, above its cost, and of the symbiont, at and above
\* its cost
TickBalances(o) == IF IsHost(o) THEN {Pts(3)} ELSE {Pts(1), Pts(3)}
\* donations and thefts lose 10%
InitTick ==
  \E host \in TickHostPrograms, sym \in TickSymPrograms,
     pts \in {f \in [Orgs -> {Pts(n) : n \in 0..5}] :
                \A o \in Orgs : f[o] \in TickBalances(o)} :
    Constructed(Config(Pts(2), Pts(1), TRUE, 1, 1, FALSE, 1),
                HostedBy1, pts,
                [o \in Orgs |-> IF IsHost(o) THEN host ELSE sym])
\* the scheduler has called RunCPUStep on the organism in this tick
Stepped(o) == location[o] # invalid_id
Thread(o) ==
  \/ /\ ~Stepped(o)
     /\ \E loc \in Positions, n \in 1..MaxCycles : RunCPUStep(o, loc, n)
  \/ Reproduce(o)
  \/ ReproduceDeduct(o)
  \/ ReproduceLock(o)
  \/ ReproduceSize(o)
  \/ ReproducePush(o)
  \/ ReproduceUnlock(o)
  \/ SwapStack(o)
  \/ Donate(o)
  \/ DonateCredit(o)
  \/ DonateDebit(o)
  \/ Steal(o)
  \/ StealDebit(o)
  \/ StealCredit(o)
  \/ AdvanceProgramCounter(o)
NextTick == \E o \in Orgs : Thread(o)
SpecTick ==
  InitTick /\ [][NextTick]_vars /\ \A o \in Orgs : WF_vars(Thread(o))

(***************************************************************************)
(* Claims about the jump table and the completion vectors (SpecBuild)      *)
(***************************************************************************)
\* the indices of the global anchors of prog whose tag matches `tag`
MatchingAnchors(prog, tag) ==
  {k \in 0..(Len(prog) - 1) :
     /\ prog[k + 1].op = "Global Anchor"
     /\ TagDistance(prog[k + 1].tag, tag) <= MatchThreshold}
\* the index of the first-ranked one: the closest tag, the earliest among equals
BestAnchor(prog, tag) ==
  CHOOSE k \in MatchingAnchors(prog, tag) :
    \A j \in MatchingAnchors(prog, tag) :
      \/ TagDistance(prog[k + 1].tag, tag) < TagDistance(prog[j + 1].tag, tag)
      \/ /\ TagDistance(prog[k + 1].tag, tag) = TagDistance(prog[j + 1].tag, tag)
         /\ k <= j
JumpIndices(prog) == {i \in 0..(Len(prog) - 1) : IsJump(prog[i + 1])}

\* C7: after construction, Reset and every Mutate, the jump table is as long
\* as the program, and the self- and shared-completion vectors are as long as
\* the task set is large.
C7_TableAndVectorsSized ==
  \A o \in BuildOrgs :
    /\ Len(jump_table[o]) = Len(program[o])
    /\ Len(self_completed[o]) = config.NumTasks
    /\ Len(shared_completed[o]) = config.NumTasks

\* C10: after any build of the jump table, the entry of a jump whose tag
\* matches no anchor is the jump's own index plus one, and the entry of a jump
\* whose tag matches some anchor is the index of the first-ranked match.
C10_JumpTargets ==
  \A o \in BuildOrgs : \A i \in JumpIndices(program[o]) :
    LET tag == program[o][i + 1].tag
    IN jump_table[o][i + 1] =
         IF MatchingAnchors(program[o], tag) = {} THEN i + 1
         ELSE BestAnchor(program[o], tag)
\* a mutated program: a jump whose best match is not the first matching anchor
\* of the program, a jump that matches nothing, and an entry left behind by a
\* jump that has been mutated away
C10_Witness ==
  \E o \in BuildOrgs : \E i, j \in JumpIndices(program[o]) :
    /\ \/ MatchingAnchors(program[o], program[o][i + 1].tag) = {}
       \/ \E n \in 0..(Len(program[o]) - 1) :
            n \notin JumpIndices(program[o]) /\ jump_table[o][n + 1] = n + 1
    /\ Cardinality(MatchingAnchors(program[o], program[o][j + 1].tag)) = 2
    /\ \E k \in MatchingAnchors(program[o], program[o][j + 1].tag) :
         k < jump_table[o][j + 1]

(***************************************************************************)
(* Claims about the reproduction queue (Spec)                              *)
(***************************************************************************)
Other(o) == CHOOSE p \in Orgs : p # o
EntriesOf(o) ==
  {i \in 1..Len(to_reproduce) : to_reproduce[i].org = o}
\* the entries the organism has appended since its last Reset
EntriesThisTick(o) == {i \in EntriesOf(o) : i > tick_start[o]}
\* between the guard of Reproduce and its return
InReproduce(o) == at[o] \in {"deduct", "lock", "size", "push", "unlock"}
\* since its last Reset the organism has executed a Reproduce that found no
\* reproduction pending, a valid destination and a balance above its cost
PassedGuard(o) == \E balance \in repro_read[o] : balance > ReproCost(o)

\* C1: an organism has at most one queue entry per tick (the time between
\* two resets of its pending marker), and once it has executed a Reproduce
\* with no reproduction pending, a valid destination and a balance above its
\* cost, it has exactly one entry for the rest of the tick, however many
\* Reproduce instructions it executes and however the organisms interleave.
C1_OneEntryPerTick ==
  \A o \in Orgs :
    /\ Cardinality(EntriesThisTick(o)) <= 1
    /\ (PassedGuard(o) /\ ~InReproduce(o))
         => Cardinality(EntriesThisTick(o)) = 1
\* an organism with its entry in the queue has been stepped again with another
\* valid destination and has executed a further Reproduce, while the other
\* organism has reset and enqueued itself a second time
C1_Witness ==
  \E o \in Orgs :
    /\ PassedGuard(o)
    /\ in_progress_repro[o] # NoRepro
    /\ at[o] = "advance" /\ Fetch(o).op = "Reproduce"
    /\ IsValid(location[o])
    /\ \E i \in EntriesThisTick(o) : to_reproduce[i].pos # location[o]
    /\ Cardinality(EntriesOf(Other(o))) = 2

\* C2: an organism whose balance does not exceed its cost when Reproduce
\* reads it is not appended to the queue: every entry of the tick, and every
\* step of Reproduce past the guard, follows a read of a balance above the cost.
C2_NoEntryWithoutBalance ==
  \A o \in Orgs :
    (EntriesThisTick(o) # {} \/ InReproduce(o)) => PassedGuard(o)
\* the host has executed Reproduce with a balance below its cost and the
\* symbiont with a balance equal to its cost; neither is on the queue for it
C2_Witness ==
  /\ \A o \in Orgs : at[o] = "advance" /\ EntriesThisTick(o) = {}
  /\ \E balance \in repro_read[1] : balance < ReproCost(1)
  /\ ReproCost(2) \in repro_read[2]

\* C3: appends to the queue are serialized.  At most one organism is between
\* acquiring the lock and releasing it; once no organism is inside Reproduce,
\* the entries of the tick are as many as the organisms that passed the guard;
\* and a step changes the queue only by appending one entry after the entries
\* there are, which keep their index and content.
HoldsLock(o) == at[o] \in {"size", "push", "unlock"}
C3_Exclusive == Cardinality({o \in Orgs : HoldsLock(o)}) <= 1
C3_Counted ==
  (\A o \in Orgs : ~InReproduce(o)) =>
    /\ Cardinality(UNION {EntriesThisTick(o) : o \in Orgs})
         = Cardinality({o \in Orgs : PassedGuard(o)})
    /\ (\A o \in Orgs : tick_start[o] = 0) =>
         Len(to_reproduce) = Cardinality({o \in Orgs : PassedGuard(o)})
C3_Appended ==
  /\ Len(to_reproduce) <= Len(to_reproduce') 
  /\ Len(to_reproduce') <= Len(to_reproduce) + 1
  /\ SubSeq(to_reproduce', 1, Len(to_reproduce)) = to_reproduce
C3_SerializedAppends ==
  [](C3_Exclusive /\ C3_Counted) /\ [][C3_Appended]_vars
\* one organism is between reading the size and appending, behind an entry
\* that is already in the queue, while the other waits for the lock
C3_Witness ==
  \E o \in Orgs :
    /\ at[o] = "push" /\ at[Other(o)] = "lock"
    /\ Len(to_reproduce) >= 1

\* C19: after a build of the jump table, the entry of every jump is an index
\* of the program, 0 <= jump_table[i] < program length, the entry of a jump
\* that is the last instruction included, and the index of every jump, where
\* the build writes, is inside the table.
C19_JumpEntriesAreIndices ==
  \A o \in Orgs :
    \A i \in JumpIndices(program[o]) :
      /\ i < Len(jump_table[o])
      /\ jump_table[o][i + 1] \in 0..(Len(program[o]) - 1)

(***************************************************************************)
(* Claims about the instructions (SpecCPU)                                 *)
(***************************************************************************)
\* the organism is returning from the instruction at its program counter
Returns(o, op) == Executing(o, op) /\ at'[o] = "advance"
\* the organism has returned from the instruction at index idx, which was
\* instruction number n of its step
Returned(o, op, idx, n) ==
  /\ at[o] = "advance"
  /\ idx < Len(program[o])
  /\ program[o][idx + 1].op = op
  /\ cycles[o] = Len(program[o]) - (n - 1)
RECURSIVE IncN(_, _)
IncN(v, n) == IF n = 0 THEN v ELSE U32Inc(IncN(v, n - 1))
Reverse(seq) == [k \in 1..Len(seq) |-> seq[Len(seq) + 1 - k]]

C4_Bounded ==
  \A o \in Orgs : Len(stack[o]) <= 16 /\ Len(stack2[o]) <= 16
\* v1..v16 are pushed (and a 17th value, which is dropped), and each of 16
\* pops is pushed onto the secondary stack: it holds v16..v1, bottom first
C4_RoundTrip ==
  \A o \in Orgs :
    program[o] = RoundTripProgram /\ at[o] = "idle" =>
      \E v \in {U32(0), MaxU32} :
        /\ stack2[o] = Reverse([k \in 1..16 |-> IncN(v, k)])
        /\ stack[o] = <<>>
        /\ registers[o][1] = U32(0)
C4_PushPop ==
  \A o \in Orgs :
    /\ Returns(o, "Push") =>
         stack'[o] = IF Len(stack[o]) = 16 THEN stack[o]
                     ELSE stack[o] \o <<ValA(o)>>
    /\ Returns(o, "Pop") =>
         IF stack[o] = <<>>
           THEN stack'[o] = <<>> /\ registers'[o][RegA(o)] = U32(0)
           ELSE /\ stack[o] = stack'[o] \o <<registers'[o][RegA(o)]>>
    /\ Returns(o, "SwapStack") =>
         stack'[o] = stack2[o] /\ stack2'[o] = stack[o]
\* C4: pushing v1..v16 on an empty primary stack and popping 16 times
\* returns v16..v1; a Push on a stack of 16 values leaves the stack as it
\* is; a Pop on an empty stack writes 0 to the operand register and leaves
\* the stack empty; neither stack ever holds more than 16 values, SwapStack
\* included.
C4_StackRoundTripAndBounds ==
  [](C4_Bounded /\ C4_RoundTrip) /\ [][C4_PushPop]_vars
\* the run of RoundTripProgram from r0 = 2^32 - 1 has ended: 17 pushes, of
\* which the last was dropped, and 17 pops, of which the last found the
\* stack empty
C4_Witness ==
  /\ program[1] = RoundTripProgram /\ at[1] = "idle" /\ cycles[1] = 0
  /\ registers[1][0] = U32(16)
  /\ Len(stack2[1]) = 16 /\ stack2[1][16] = U32(0) /\ stack2[1][1] = U32(15)
  /\ stack[1] = <<>>

\* a Donate or Steal of the symbiont o takes effect
TakesEffect(o) ==
  config.DONATION_STEAL_INST /\ o \in Symbionts /\ host_of[o] \in Hosts
\* t is the smaller of the balance src and a fifth of the sum
IsCappedFifth(t, src, sum) ==
  /\ t <= src /\ 5 * t <= sum
  /\ t = src \/ 5 * t = sum
C5_Capped ==
  \A o \in Orgs :
    LET h == host_of[o]
        sum == points[o] + points[h]
    IN /\ Executing(o, "Donate") /\ TakesEffect(o) =>
            IsCappedFifth(to_transfer'[o], points[o], sum)
       /\ Transferring(o, "Donate", "debit") =>
            /\ points'[o] = points[o] - to_transfer[o]
            /\ points'[o] >= 0
       /\ Executing(o, "Steal") /\ TakesEffect(o) =>
            IsCappedFifth(to_transfer'[o], points[h], sum)
       /\ Transferring(o, "Steal", "debit") =>
            /\ points'[h] = points[h] - to_transfer[o]
            /\ points'[h] >= 0
\* C5: Donate removes from the symbiont the smaller of its balance and 20% of
\* the sum of the symbiont's and the host's balances, Steal removes from the
\* host the smaller of the host's balance and 20% of that sum; the amount
\* never exceeds the source's balance, so that no balance becomes negative.
C5_TransferCappedBySource ==
  [](\A o \in Orgs : points[o] >= 0) /\ [][C5_Capped]_vars
\* a symbiont with 1 point and a host with 10 points: 20% of the sum is 2.2
\* points, and the Donate has taken the symbiont's 1 point
C5_Witness ==
  /\ Returned(2, "Donate", 0, 1) /\ pc[2] = 0 /\ TakesEffect(2)
  /\ data_nodes.donated = <<Pts(1)>>
  /\ points[2] = 0
  /\ points[1] = Pts(10) + (Pts(1) \div 10) * (10 - config.DONATE_PENALTY)

C6_Transferred ==
  \A o \in Orgs :
    LET h == host_of[o]
        t == to_transfer[o]
    IN /\ Executing(o, "Donate") /\ TakesEffect(o) =>
            /\ data_nodes'.donated = data_nodes.donated \o <<to_transfer'[o]>>
            /\ data_nodes'.stolen = data_nodes.stolen
            /\ points' = points
       /\ Transferring(o, "Donate", "credit") =>
            /\ 10 * (points'[h] - points[h]) = t * (10 - config.DONATE_PENALTY)
            /\ points'[o] = points[o]
       /\ Transferring(o, "Donate", "debit") =>
            /\ points'[o] = points[o] - t /\ points'[h] = points[h]
            /\ 10 * (sum_read[o] - (points'[o] + points'[h])) =
                 t * config.DONATE_PENALTY
       /\ Executing(o, "Steal") /\ TakesEffect(o) =>
            /\ data_nodes'.stolen = data_nodes.stolen \o <<to_transfer'[o]>>
            /\ data_nodes'.donated = data_nodes.donated
            /\ points' = points
       /\ Transferring(o, "Steal", "debit") =>
            points'[h] = points[h] - t /\ points'[o] = points[o]
       /\ Transferring(o, "Steal", "credit") =>
            /\ 10 * (points'[o] - points[o]) = t * (10 - config.STEAL_PENALTY)
            /\ points'[h] = points[h]
            /\ 10 * (sum_read[o] - (points'[o] + points'[h])) =
                 t * config.STEAL_PENALTY
            /\ data_nodes' = data_nodes
\* C6: a Donate or Steal that takes effect takes the amount t from the
\* source, gives t x (1 - DONATE_PENALTY), or t x (1 - STEAL_PENALTY), to
\* the recipient, so that the sum of the two balances decreases by the
\* penalty x t, and records t on the monitoring sink.
C6_PenaltyLostOnTransfer == [][C6_Transferred]_vars
\* a symbiont with 1 point has stolen from a host with 4 points under a
\* penalty of 10%: 1 point was taken, 0.9 points were received
C6_Witness ==
  /\ Returned(2, "Steal", 0, 1) /\ pc[2] = 0 /\ TakesEffect(2)
  /\ config.STEAL_PENALTY = 1
  /\ data_nodes.stolen = <<Pts(1)>>
  /\ points[1] = Pts(3)
  /\ 10 * points[2] = Pts(19)

C8_Jumped ==
  \A o \in Orgs :
    LET a == registers[o][Fetch(o).args[1]]
        b == registers[o][Fetch(o).args[2]]
        entry == jump_table[o][pc[o] + 1]
    IN /\ Returns(o, "JumpIfNEq") =>
            /\ pc'[o] = IF a # b THEN entry ELSE pc[o]
            /\ pc[o] = 2 /\ entry = 7 /\ a = U32(5) /\ b = U32(5) => pc'[o] = 2
            /\ pc[o] = 2 /\ entry = 7 /\ a = U32(5) /\ b = U32(6) => pc'[o] = 7
       /\ Returns(o, "JumpIfLess") =>
            pc'[o] = IF a[1] < b[1] \/ (a[1] = b[1] /\ a[2] < b[2])
                       THEN entry ELSE pc[o]
\* C8: a jump at position p sets the program counter to jump_table[p] if its
\* condition holds on its two operand registers (JumpIfNEq: a != b,
\* JumpIfLess: a < b as unsigned 32-bit values) and leaves the program
\* counter alone if not; at index 2 with the entry 7, a = 5 and b = 5 do not
\* jump, a = 5 and b = 6 jump to 7.
C8_JumpIffCondition == [][C8_Jumped]_vars
\* the third instruction of the step, the JumpIfNEq at index 2 whose entry
\* is 7, has returned with a = 5 and b = 6 and the program counter at 7
C8_Witness ==
  /\ Returned(1, "JumpIfNEq", 2, 3)
  /\ jump_table[1][2 + 1] = 7
  /\ registers[1][0] = U32(5) /\ registers[1][1] = U32(6)
  /\ pc[1] = 7

C9_Credited ==
  \A o \in Orgs :
    LET s == task_score
        gain == points'[o] - points[o]
    IN /\ Returns(o, "PrivateIO") =>
            /\ s = 0 => points' = points
            /\ s # 0 /\ o \in Hosts => 4 * gain = 3 * s
            /\ s # 0 /\ o \in Symbionts => gain = s
            /\ s = Pts(10) /\ o \in Hosts => 2 * gain = Pts(15)
            /\ \A q \in Orgs \ {o} : points'[q] = points[q]
       /\ Returns(o, "SharedIO") =>
            /\ s = 0 => points' = points
            /\ s # 0 => gain = s
            /\ \A q \in Orgs \ {o} : points'[q] = points[q]
\* C9: with a score s # 0 of the task set, PrivateIO of a host adds 0.75 x s
\* to the host's balance, PrivateIO of a symbiont adds s, SharedIO adds s
\* whoever executes it; with a score of 0 no balance changes.  A score of 10
\* gives a host 7.5 by PrivateIO and 10 by SharedIO.
C9_IOCredits == [][C9_Credited]_vars
\* a host with no points has scored 10 by SharedIO and then 10 by PrivateIO:
\* its balance is 17.5
C9_Witness ==
  /\ Returned(1, "PrivateIO", 1, 2) /\ pc[1] = 1
  /\ program[1][1].op = "SharedIO"
  /\ 2 * points[1] = Pts(35)

(***************************************************************************)
(* More claims about Reproduce (Spec)                                      *)
(***************************************************************************)
\* the organism executes the guards of Reproduce in this step
GuardsReproduce(o) == Executing(o, "Reproduce") /\ at'[o] # at[o]
\* what the organism has paid for: its entries in the queue, and the entry
\* it is about to append
PaidFor(o) ==
  Cardinality(EntriesOf(o)) + (IF at[o] \in {"lock", "size", "push"} THEN 1 ELSE 0)
C11_Refusal ==
  \A o \in Orgs :
    LET cost == IF o \in Hosts THEN config.HOST_REPRO_RES
                ELSE config.SYM_HORIZ_TRANS_RES
    IN /\ (/\ GuardsReproduce(o)
           /\ \/ location[o] = invalid_id
              \/ in_progress_repro[o] # -1
              \/ points[o] <= cost)
         => /\ at'[o] = "advance"
            /\ points' = points
            /\ to_reproduce' = to_reproduce
            /\ in_progress_repro' = in_progress_repro
            /\ reproduce_mutex' = reproduce_mutex
       /\ (/\ GuardsReproduce(o)
           /\ location[o] # invalid_id
           /\ in_progress_repro[o] = -1
           /\ points[o] > cost)
         => at'[o] = "deduct" /\ points' = points
       \* every entry is paid for once, and nothing else is paid for
       /\ points'[o] + cost * PaidFor(o)' = points[o] + cost * PaidFor(o)
\* C11: a Reproduce with an invalid destination, or a pending reproduction,
\* or a balance that does not exceed the cost returns at once and leaves the
\* balance, the queue, the pending marker and the lock as they are; a
\* Reproduce that succeeds deducts the cost from the balance exactly once.
C11_RefusedReproduceIsNoOp == [][C11_Refusal]_vars
\* the host has paid for two entries, in two ticks, and its third Reproduce
\* has just been refused for its balance, which is below its cost
C11_Witness ==
  /\ at[1] = "advance" /\ Fetch(1).op = "Reproduce"
  /\ Cardinality(EntriesOf(1)) = 2
  /\ in_progress_repro[1] = -1 /\ location[1] # invalid_id
  /\ points[1] < config.HOST_REPRO_RES
  /\ points[1] \in repro_read[1]

\* the marker of the organism is none, or the index of an entry of its own
MarkerNamesOwnEntry(o) ==
  LET m == in_progress_repro[o]
  IN m = -1 \/ (/\ 0 <= m /\ m < Len(to_reproduce)
                /\ to_reproduce[m + 1].org = o
                /\ to_reproduce[m + 1].pos \in Positions)
C12_Markers ==
  /\ \A o \in Orgs : at[o] # "push" => MarkerNamesOwnEntry(o)
  /\ \A o, q \in Orgs :
       (o # q /\ at[o] # "push" /\ at[q] # "push" /\ in_progress_repro[o] # -1)
         => in_progress_repro[o] # in_progress_repro[q]
\* the entry an organism appends is at the index of its marker and holds the
\* organism and the destination of its step
C12_Enqueued ==
  \A o \in Orgs :
    (at[o] = "push" /\ at'[o] = "unlock") =>
      /\ Len(to_reproduce') = in_progress_repro[o] + 1
      /\ to_reproduce'[in_progress_repro[o] + 1] = [org |-> o, pos |-> location[o]]
      /\ in_progress_repro'[o] = in_progress_repro[o]
\* C12: outside the critical section and under any interleaving, the pending
\* marker of an organism is none (-1) or the index m of its own queue entry,
\* which holds the organism and the destination it was stepped with; no two
\* organisms hold the same marker.
C12_MarkerIsOwnEntry == []C12_Markers /\ [][C12_Enqueued]_vars
\* both organisms are pending: the symbiont with the second entry of the
\* queue, the host, in its second tick, with the third
C12_Witness ==
  /\ in_progress_repro[1] = 2 /\ in_progress_repro[2] = 1
  /\ \A o \in Orgs : ~InReproduce(o)
  /\ Len(to_reproduce) = 3

(***************************************************************************)
(* Claims about the life of an organism (SpecLife)                         *)
(***************************************************************************)
\* the world's calls, told by what they do to an organism that is not inside
\* a step: RunCPUStep starts a step, Mutate changes the program, Reset
\* changes the state and leaves the program
StepsRunCPUStep(o) == at[o] = "idle" /\ at'[o] = "exec"
StepsMutate(o) == at[o] = "idle" /\ at'[o] = "idle" /\ program'[o] # program[o]
StepsReset(o) == at[o] = "idle" /\ at'[o] = "idle" /\ program'[o] = program[o]
C13_Cleared ==
  \A o \in Orgs :
    /\ (in_progress_repro[o] # -1 /\ in_progress_repro'[o] = -1) => StepsReset(o)
    /\ StepsReset(o) => in_progress_repro'[o] = -1
    /\ (StepsRunCPUStep(o) \/ StepsMutate(o))
         => in_progress_repro'[o] = in_progress_repro[o]
    /\ (in_progress_repro[o] # -1 /\ ~StepsReset(o))
         => in_progress_repro'[o] = in_progress_repro[o]
\* C13: the pending marker returns to none only when Reset rebuilds the CPU
\* state; after Reset the marker is none and the organism can be enqueued
\* again; RunCPUStep and Mutate never clear it, so a pending organism stays
\* pending between two Resets however often it is stepped.
C13_MarkerClearedOnlyByReset == [][C13_Cleared]_vars
\* the organism was enqueued, reset and enqueued again; pending, it has been
\* mutated and stepped, and is still pending
C13_Witness ==
  /\ Cardinality(EntriesOf(2)) = 2
  /\ in_progress_repro[2] = 1
  /\ program[2] \notin LifePrograms
  /\ at[2] = "advance"

\* no task is recorded as completed in vec
NoneCompleted(vec) == \A task \in 1..Len(vec) : vec[task] = 0
C17_Fresh ==
  \A o \in Orgs :
    StepsMutate(o) =>
      NoneCompleted(self_completed'[o]) /\ NoneCompleted(shared_completed'[o])
\* C17: after Mutate the self-completion and the shared-completion vector
\* record no task as completed, whatever they recorded before.
C17_MutateResetsCompletion == [][C17_Fresh]_vars

(***************************************************************************)
(* More claims about the instructions (SpecCPU)                            *)
(***************************************************************************)
C14_Input ==
  \A o \in Orgs :
    (Returns(o, "PrivateIO") \/ Returns(o, "SharedIO")) =>
      LET a == Fetch(o).args[1]
      IN /\ Len(input_buf'[o]) = Len(input_buf[o]) + 1
         /\ SubSeq(input_buf'[o], 1, Len(input_buf[o])) = input_buf[o]
         /\ Last(input_buf'[o]) = registers'[o][a]
         /\ ~config.RANDOM_IO_INPUT => registers'[o][a] = <<0, 1>>
         /\ \A r \in Regs \ {a} : registers'[o][r] = registers[o][r]
\* C14: after every PrivateIO and SharedIO, whatever the score, the source
\* register holds the new input value and that value is the last element of
\* the input buffer, which has grown by one; with RANDOM_IO_INPUT disabled
\* the value is 1.
C14_NewInputInRegisterAndBuffer == [][C14_Input]_vars
\* with random inputs, a PrivateIO on register 0 and a SharedIO on register 1
\* have drawn two different values: a non-zero score was credited on the way
C14_Witness ==
  /\ Returned(1, "SharedIO", 1, 2) /\ pc[1] = 1
  /\ program[1][1].op = "PrivateIO"
  /\ config.RANDOM_IO_INPUT
  /\ input_buf[1] = <<MaxU32, U32(0)>>
  /\ registers[1][0] = MaxU32 /\ registers[1][1] = U32(0)
  /\ points[1] > Pts(3)

\* what a reuptake from the environment env does, other being the other
\* environment
ReuptakesFrom(o, env, other) ==
  LET a == Fetch(o).args[1]
  IN /\ other'[o] = other[o]
     /\ IF env[o] # <<>>
          THEN /\ env[o] = env'[o] \o <<registers'[o][a]>>
               /\ input_buf'[o] = input_buf[o] \o <<registers'[o][a]>>
          ELSE /\ registers'[o][a] = <<0, 0>>
               /\ env'[o] = <<>>
               /\ input_buf'[o] = input_buf[o]
C15_Reuptaken ==
  \A o \in Orgs :
    /\ Returns(o, "ReuptakePublic") =>
         ReuptakesFrom(o, internalEnvironment, internalEnvironmentPrivate)
    /\ Returns(o, "ReuptakePrivate") =>
         ReuptakesFrom(o, internalEnvironmentPrivate, internalEnvironment)
\* C15: ReuptakePublic and ReuptakePrivate remove the back value of their
\* environment stack, if it holds one, write it to the source register and
\* append it to the input buffer; if it holds none, the register is set to 0
\* and the stack and the input buffer stay as they are.  ReuptakePublic
\* changes only the public stack, ReuptakePrivate only the private one.
C15_ReuptakeTakesBackOrZero == [][C15_Reuptaken]_vars
\* with 7 and 8 in the public environment and nothing in the private one:
\* ReuptakePrivate has set register 1 to 0, ReuptakePublic has taken 8 into
\* register 1 and 7 into register 0
C15_Witness ==
  /\ Returned(1, "ReuptakePublic", 2, 3) /\ pc[1] = 2
  /\ program[1][1].op = "ReuptakePrivate"
  /\ registers[1][1] = U32(8) /\ registers[1][0] = U32(7)
  /\ input_buf[1] = <<U32(8), U32(7)>>
  /\ internalEnvironment[1] = <<>> /\ internalEnvironmentPrivate[1] = <<>>

C16_Skipped ==
  \A o \in Orgs :
    (Executing(o, "Donate") \/ Executing(o, "Steal")) /\ ~TakesEffect(o) =>
      /\ points' = points
      /\ data_nodes' = data_nodes
      /\ at'[o] = "advance"
\* C16: a Donate or Steal executed by a host, by a symbiont without a host,
\* or with DONATION_STEAL_INST off changes no balance and records nothing on
\* the donated and stolen data nodes.
C16_TransferSkipped ==
  /\ [](\A o \in Orgs :
          ~TakesEffect(o) /\ Fetch(o).op \in {"Donate", "Steal"} =>
            at[o] \notin {"credit", "debit"})
  /\ [][C16_Skipped]_vars
\* with DONATION_STEAL_INST off, a symbiont with 1 point has returned from a
\* Steal from its host with 4 points: the balances are as they were
C16_Witness ==
  /\ Returned(2, "Steal", 0, 1) /\ pc[2] = 0
  /\ ~config.DONATION_STEAL_INST /\ host_of[2] = 1
  /\ points[1] = Pts(4) /\ points[2] = Pts(1)
  /\ data_nodes.stolen = <<>> /\ data_nodes.donated = <<>>

(***************************************************************************)
(* Claims about a tick of a host and its symbiont (SpecTick)               *)
(***************************************************************************)
\* C18: no points balance ever becomes negative, from balances that are not
\* negative and penalties between 0 and 1, however the host's Reproduce and
\* its symbiont's Steal or Donate interleave, every read, credit and debit
\* being atomic.
C18_BalancesNeverNegative == \A o \in Orgs : points[o] >= 0

\* the tick is over: every organism was stepped and its step has returned
TickDone == \A o \in Orgs : Stepped(o) /\ at[o] = "idle"
\* the organism has an entry in the queue
Enqueued(o) == \E k \in 1..Len(to_reproduce) : to_reproduce[k].org = o
\* C20: the reproduction lock is always released and causes no deadlock:
\* under weak fairness every organism that starts a Reproduce finishes it,
\* with its entry appended and the lock released; no organism returns from
\* Reproduce holding the lock; and the tick, in which every organism runs a
\* finite budget of cycles in parallel, is eventually over.
C20_LockReleasedTickEnds ==
  /\ \A o \in Orgs :
       InReproduce(o) ~>
         (at[o] = "advance" /\ Enqueued(o) /\ reproduce_mutex # o)
  /\ [](\A o \in Orgs : ~HoldsLock(o) => reproduce_mutex # o)
  /\ [](TickDone \/ ENABLED NextTick)
  /\ <>[](TickDone /\ reproduce_mutex = NullOrg)
\* the tick is over, host and symbiont have both gone through the lock and
\* appended their entries
C20_Witness ==
  /\ TickDone /\ reproduce_mutex = NullOrg
  /\ Len(to_reproduce) = 2 /\ Enqueued(1) /\ Enqueued(2)

====
